---- MODULE Spec2Model ----
(***************************************************************************)
(* Model of cmd/soft/migrate_config.go: the `migrate-config` command that  *)
(* converts a legacy soft-serve installation (config repository + bare     *)
(* repositories) into the state of the sqlite backend.                     *)
(*                                                                         *)
(* RunE is one sequential function.  `pc` is its position; every fallible  *)
(* statement is one action with a success and a failure branch.  Strings   *)
(* that the code takes apart or builds (paths, user names, URLs) are       *)
(* sequences of tokens; strings it only passes along are TLA+ strings.     *)
(***************************************************************************)
EXTENDS Integers, Sequences, FiniteSets, TLC

(***************************************************************************)
(* Bounds of the explored inputs.                                          *)
(***************************************************************************)
MaxUsers == 2        \* legacy users per config
MaxKeys == 2         \* public-key strings per legacy user
MaxDirs == 2         \* entries of the legacy storage root
MaxRepos == 2        \* repos[] entries per config
MaxFaults == 1       \* failing filesystem operations inside one tree copy

(***************************************************************************)
(* Generic helpers.                                                        *)
(***************************************************************************)
SeqsUpTo(S, n) == UNION {[1..k -> S] : k \in 0..n}

Range(s) == {s[k] : k \in DOMAIN s}

SubsetsUpTo(S, n) == {T \in SUBSET S : Cardinality(T) <= n}

\* All orders in which the elements of a finite set can be listed.
Perms(S) == {s \in [1..Cardinality(S) -> S] : Range(s) = S}

(***************************************************************************)
(* Strings as token sequences: filepath.Join, filepath.Base, s + ".pub".   *)
(***************************************************************************)
Sep == "/"

\* filepath.Join(a, b): empty elements are ignored.
Join(a, b) == IF a = <<>> THEN b ELSE IF b = <<>> THEN a ELSE a \o <<Sep>> \o b

Join3(a, b, c) == Join(Join(a, b), c)

\* filepath.Base(p): the last element of the path.
Base(p) ==
  IF p = <<>> THEN <<".">>
  ELSE LET seps == {k \in DOMAIN p : p[k] = Sep}
           from == IF seps = {} THEN 1
                   ELSE (CHOOSE k \in seps : \A m \in seps : m <= k) + 1
       IN SubSeq(p, from, Len(p))

Pub(p) == p \o <<".pub">>

(***************************************************************************)
(* config.DefaultConfig(): the target configuration before the run touches *)
(* it.                                                                     *)
(***************************************************************************)
DefaultConfig ==
  [ Name      |-> "Soft Serve",
    DataPath  |-> <<"data">>,
    ListenAddr |-> <<":23231">>,
    KeyPath   |-> <<"ssh", Sep, "soft_serve_host_ed25519">>,
    PublicURL |-> <<"ssh://", "localhost", ":", 23231>> ]

(***************************************************************************)
(* Public keys.  A raw authorized-keys line is a token sequence            *)
(* <<type, blob>> or <<type, blob, comment>>; anything else does not       *)
(* parse.  A parsed key is its type and blob; its canonical marshaled form *)
(* is the line without comment.                                            *)
(***************************************************************************)
KeyTypes == {"ssh-ed25519", "ssh-rsa"}

RawKeys ==
  { <<"ssh-ed25519", "AAAA">>,
    <<"ssh-ed25519", "AAAA", "me@host">>,
    <<"ssh-rsa", "BBBB">>,
    <<"not-a-key">> }

\* backend.ParseAuthorizedKey: err is TRUE when the line is no key.
ParseAuthorizedKey(key) ==
  IF Len(key) \in {2, 3} /\ key[1] \in KeyTypes
    THEN [err |-> FALSE, pk |-> [type |-> key[1], blob |-> key[2]]]
    ELSE [err |-> TRUE, pk |-> [type |-> "", blob |-> ""]]

\* backend.MarshalAuthorizedKey: the canonical text of a parsed key.
MarshalAuthorizedKey(pk) == <<pk.type, pk.blob>>

(***************************************************************************)
(* The legacy configuration document (types Config, User, RepoConfig).     *)
(***************************************************************************)
NameJane == <<"J", "a", " ", "D">>
NameBob == <<"b", "o", "b">>

User0 ==
  [ Name |-> NameJane, Admin |-> TRUE,
    PublicKeys |-> << <<"ssh-ed25519", "AAAA">> >>,
    CollabRepos |-> <<"r1">> ]

User1 ==
  [ Name |-> NameBob, Admin |-> FALSE,
    PublicKeys |-> << <<"not-a-key">> >>,
    CollabRepos |-> <<>> ]

User2 ==
  [ Name |-> NameBob, Admin |-> TRUE,
    PublicKeys |-> << <<"ssh-rsa", "BBBB">> >>,
    CollabRepos |-> <<"r1", "ghost">> ]

LegacyUsers == {User0, User1, User2}

Repo0 ==
  [ Name |-> "Project One", Repo |-> "r1", Note |-> "first", Private |-> TRUE,
    Collabs |-> <<NameJane>> ]

Repo1 ==
  [ Name |-> "Ghost", Repo |-> "ghost", Note |-> "", Private |-> FALSE,
    Collabs |-> <<NameBob, NameJane>> ]

LegacyRepos == {Repo0, Repo1}

\* The document every family of inputs below varies.
Config0 ==
  [ Name |-> "Legacy", Host |-> "example.com", Port |-> 2222,
    AnonAccess |-> "read-only", AllowKeyless |-> TRUE,
    Users |-> <<User0>>, Repos |-> <<Repo0>> ]

\* A second document, stored under the other file name when both exist.
Config1 == [Config0 EXCEPT !.Name = "Other", !.Users = <<>>, !.Repos = <<>>]

AnonAccessStrings == {"no-access", "read-only", "read-write", "admin-access", "bogus"}

UserConfigs ==
       {[Config0 EXCEPT !.Users = <<[User0 EXCEPT !.PublicKeys = ks]>>] :
           ks \in SeqsUpTo(RawKeys, MaxKeys)}
  \cup {[Config0 EXCEPT !.Users = us] : us \in SeqsUpTo(LegacyUsers, MaxUsers)}

LegacyConfigs ==
       {[Config0 EXCEPT !.AnonAccess = a, !.AllowKeyless = k] :
           a \in AnonAccessStrings, k \in BOOLEAN}
  \cup {[Config0 EXCEPT !.Repos = rs] : rs \in SeqsUpTo(LegacyRepos, MaxRepos)}
  \cup {[Config0 EXCEPT !.Name = n, !.Host = h, !.Port = p] :
           n \in {"Legacy", ""}, h \in {"example.com", "git.local"}, p \in {22, 2222}}

(***************************************************************************)
(* The head tree of the legacy config repository: the two candidate        *)
(* entries, each absent or a file with an encoding and the document it     *)
(* encodes.                                                                *)
(***************************************************************************)
Absent == [enc |-> "absent", doc |-> Config1]

Encodings == {"yaml", "json", "garbage"}

Trees ==
  { [yaml |-> y, json |-> j] :
      y \in {Absent} \cup {[enc |-> e, doc |-> Config0] : e \in Encodings},
      j \in {Absent} \cup {[enc |-> e, doc |-> Config1] : e \in Encodings} }

\* yaml.Unmarshal: YAML is a superset of JSON, so it decodes both.
yamlUnmarshal(file) ==
  [err |-> file.enc \notin {"yaml", "json"}, ocfg |-> file.doc]

\* json.Unmarshal decodes JSON only.
jsonUnmarshal(file) ==
  [err |-> file.enc # "json", ocfg |-> file.doc]

(***************************************************************************)
(* The legacy storage root: directory entries as trees.  os.ReadDir lists  *)
(* a directory sorted by file name, so a root is a selection of AllEntries *)
(* in its order.                                                           *)
(***************************************************************************)
\* isDir is FileInfo.IsDir(), regular is FileInfo.Mode().IsRegular().
File(n) == [name |-> n, isDir |-> FALSE, regular |-> TRUE, kids |-> <<>>]

Dir(n, ks) == [name |-> n, isDir |-> TRUE, regular |-> FALSE, kids |-> ks]

\* A named pipe, socket or device: neither a directory nor a regular file.
Special(n) == [name |-> n, isDir |-> FALSE, regular |-> FALSE, kids |-> <<>>]

BareRepo(n) == Dir(n, <<File("HEAD"), Dir("objects", <<File("pack")>>)>>)

AllEntries ==
  << File("notes.txt"),
     Dir("nohead", <<Dir("objects", <<>>)>>),
     Dir("odd", <<Dir("HEAD", <<>>), Dir("objects", <<>>)>>),
     BareRepo("r1"),
     BareRepo("r2"),
     Dir("tmp", <<File("HEAD"), File("objects")>>) >>

Root(S) ==
  [k \in 1..Cardinality(S) |->
     AllEntries[CHOOSE n \in S : Cardinality({m \in S : m < n}) = k - 1]]

Roots == {Root(S) : S \in SubsetsUpTo(DOMAIN AllEntries, MaxDirs)}

\* Every shape a directory can have in the two entries isGitDir looks at.
EntryKinds == {"none", "file", "dir", "special"}

EntryOf(n, kind) ==
  CASE kind = "none" -> <<>>
    [] kind = "file" -> <<File(n)>>
    [] kind = "dir" -> <<Dir(n, <<>>)>>
    [] kind = "special" -> <<Special(n)>>

ShapeDir(objects, head) ==
  Dir("shape", EntryOf("HEAD", head) \o EntryOf("objects", objects))

ShapeRoots == {<<ShapeDir(o, h)>> : o \in EntryKinds, h \in EntryKinds}

\* os.Stat(filepath.Join(path, name)) inside a directory tree.
HasKid(node, n) == \E k \in DOMAIN node.kids : node.kids[k].name = n

Kid(node, n) == node.kids[CHOOSE k \in DOMAIN node.kids : node.kids[k].name = n]

\* Variant of isGitDir: HEAD has to be a regular file.
isGitDirRegularHead(node) ==
  IF ~HasKid(node, "objects") THEN FALSE
  ELSE IF ~Kid(node, "objects").isDir THEN FALSE
  ELSE IF ~HasKid(node, "HEAD") THEN FALSE
  ELSE IF ~Kid(node, "HEAD").regular THEN FALSE
  ELSE TRUE


isGitDir(node) ==
  IF ~HasKid(node, "objects") THEN FALSE
  ELSE IF ~Kid(node, "objects").isDir THEN FALSE
  ELSE IF ~HasKid(node, "HEAD") THEN FALSE
  ELSE IF Kid(node, "HEAD").isDir THEN FALSE
  ELSE TRUE

(***************************************************************************)
(* copyDir.  A fault names the filesystem operation that fails and the     *)
(* path (names below the copied directory) it fails at.  The result is the *)
(* returned error, the paths the copy attempted and the paths it made.     *)
(***************************************************************************)
RECURSIVE FaultSites(_, _)
FaultSites(node, at) ==
  IF node.isDir
    THEN {[at |-> at, op |-> o] : o \in {"stat", "mkdir", "readdir"}}
         \cup UNION {FaultSites(node.kids[k], Append(at, node.kids[k].name)) :
                       k \in DOMAIN node.kids}
    ELSE {[at |-> at, op |-> "copyFile"]}

FaultPlans(node) == SubsetsUpTo(FaultSites(node, <<>>), MaxFaults)

\* copyFile(src, dst): an error, or the file made.
copyFile(at, faults) ==
  IF [at |-> at, op |-> "copyFile"] \in faults
    THEN [err |-> TRUE, tried |-> {at}, made |-> {}]
    ELSE [err |-> FALSE, tried |-> {at}, made |-> {at}]

\* Variant of copyDir: the first child that fails ends the copy with its error.
RECURSIVE copyDirOrReturn(_, _, _)
copyDirOrReturn(node, at, faults) ==
  IF [at |-> at, op |-> "stat"] \in faults
    THEN [err |-> TRUE, tried |-> {at}, made |-> {}]
  ELSE IF [at |-> at, op |-> "mkdir"] \in faults
    THEN [err |-> TRUE, tried |-> {at}, made |-> {}]
  ELSE IF [at |-> at, op |-> "readdir"] \in faults
    THEN [err |-> TRUE, tried |-> {at}, made |-> {at}]
  ELSE LET child(k) == LET fd == node.kids[k]
                           fp == Append(at, fd.name)
                       IN IF fd.isDir THEN copyDirOrReturn(fd, fp, faults)
                                      ELSE copyFile(fp, faults)
           failing == {k \in DOMAIN node.kids : child(k).err}
           reached == {k \in DOMAIN node.kids : \A j \in failing : k <= j}
       IN [ err   |-> failing # {},
            tried |-> {at} \cup UNION {child(k).tried : k \in reached},
            made  |-> {at} \cup UNION {child(k).made : k \in reached} ]


RECURSIVE copyDir(_, _, _)
copyDir(node, at, faults) ==
  IF [at |-> at, op |-> "stat"] \in faults
    THEN [err |-> TRUE, tried |-> {at}, made |-> {}]
  ELSE IF [at |-> at, op |-> "mkdir"] \in faults
    THEN [err |-> TRUE, tried |-> {at}, made |-> {}]
  ELSE IF [at |-> at, op |-> "readdir"] \in faults
    THEN [err |-> TRUE, tried |-> {at}, made |-> {at}]
  ELSE LET sub(k) == LET fd == node.kids[k]
                         fp == Append(at, fd.name)
                     IN IF fd.isDir THEN copyDir(fd, fp, faults)
                                    ELSE copyFile(fp, faults)
       IN [ err   |-> FALSE,
            tried |-> {at} \cup UNION {sub(k).tried : k \in DOMAIN node.kids},
            made  |-> {at} \cup UNION {sub(k).made : k \in DOMAIN node.kids} ]

\* utils.SanitizeRepo: no leading separator, no trailing ".git".
SanitizeRepo(p) ==
  LET a == IF p # <<>> /\ p[1] = Sep THEN Tail(p) ELSE p
  IN IF a # <<>> /\ a[Len(a)] = ".git" THEN SubSeq(a, 1, Len(a) - 1) ELSE a

\* backend.ParseAccessLevel: -1 for a string that names no access level.
ParseAccessLevel(s) ==
  CASE s = "no-access" -> 0
    [] s = "read-only" -> 1
    [] s = "read-write" -> 2
    [] s = "admin-access" -> 3
    [] OTHER -> -1

(***************************************************************************)
(* The environment of one run: the three environment variables, the head   *)
(* tree of the config repository and the storage root.  World0 is a run in *)
(* which every phase has work to do; each family varies one part of it.    *)
(***************************************************************************)
KeyPath0 == <<"old", Sep, "soft_serve">>
ReposPath0 == <<"srv", Sep, "repos">>
BindAddr0 == <<"0.0.0.0:2222">>

TreeOf(c) == [yaml |-> [enc |-> "yaml", doc |-> c], json |-> Absent]

World0 ==
  [ keyPath |-> KeyPath0, reposPath |-> ReposPath0, bindAddr |-> BindAddr0,
    tree |-> TreeOf(Config0), root |-> Root({1, 4}) ]

Worlds ==
       {[World0 EXCEPT !.keyPath = k, !.reposPath = r, !.bindAddr = b] :
           k \in {<<>>, KeyPath0}, r \in {<<>>, ReposPath0}, b \in {<<>>, BindAddr0}}
  \cup {[World0 EXCEPT !.tree = t] : t \in Trees}
  \cup {[World0 EXCEPT !.tree = TreeOf(c)] : c \in LegacyConfigs}
  \cup {[World0 EXCEPT !.tree = TreeOf(c), !.root = Root({1})] : c \in UserConfigs}
  \cup {[World0 EXCEPT !.root = d] : d \in Roots \cup ShapeRoots}

(***************************************************************************)
(* State.                                                                  *)
(*   world    the environment of the run (never changes)                   *)
(*   pc       position in RunE                                             *)
(*   result   "running", "ok" (RunE returned nil) or the returned error    *)
(*   cfg      the target configuration being filled in                     *)
(*   te, isJson, cc, ocfg   locals of the config read (lines 80-104)       *)
(*   dirs     entries returned by os.ReadDir(reposPath)                    *)
(*   idx, sub positions of the current loop and of its inner loop          *)
(*   pubkeys  the key slice built for the current user                     *)
(*   effects  every backend call and filesystem write issued, in order     *)
(*   nlogged  number of error lines written to the log / stderr            *)
(***************************************************************************)
VARIABLES world, pc, result, cfg, te, isJson, cc, ocfg, dirs, idx, sub,
          pubkeys, effects, nlogged

vars == <<world, pc, result, cfg, te, isJson, cc, ocfg, dirs, idx, sub,
          pubkeys, effects, nlogged>>

readVars == <<te, isJson, cc, ocfg>>
loopVars == <<dirs, idx, sub, pubkeys>>

\* The zero value of type Config.
ZeroConfig ==
  [ Name |-> "", Host |-> "", Port |-> 0, AnonAccess |-> "",
    AllowKeyless |-> FALSE, Users |-> <<>>, Repos |-> <<>> ]

Init ==
  /\ world \in Worlds
  /\ pc = "start"
  /\ result = "running"
  /\ cfg = DefaultConfig
  /\ te = "" /\ isJson = FALSE /\ cc = Absent /\ ocfg = ZeroConfig
  /\ dirs = <<>> /\ idx = 1 /\ sub = 1 /\ pubkeys = <<>>
  /\ effects = <<>>
  /\ nlogged = 0

Running(at) == result = "running" /\ pc = at

\* return fmt.Errorf(msg): RunE ends where it stands.
Return(msg) ==
  /\ result' = msg
  /\ UNCHANGED <<world, pc, cfg, readVars, loopVars, effects, nlogged>>

\* A best-effort call: issued, and on failure one line is logged.
Issue(e) == effects' = Append(effects, e)

Logged(failed) == nlogged' = IF failed THEN nlogged + 1 ELSE nlogged

(***************************************************************************)
(* Init phase: environment, default config, backend (lines 27-37).         *)
(***************************************************************************)
NewSqliteBackend ==
  /\ Running("start")
  /\ \/ /\ Issue([op |-> "NewSqliteBackend"])
        /\ pc' = "bind"
        /\ UNCHANGED <<world, result, cfg, readVars, loopVars, nlogged>>
     \/ Return("failed to create sqlite backend")

(***************************************************************************)
(* SSH listen address (lines 39-43).                                       *)
(***************************************************************************)
\* Variant of SetListenAddr: the legacy bind address is taken even when empty.
SetListenAddrAlways ==
  /\ Running("bind")
  /\ cfg' = [cfg EXCEPT !.ListenAddr = world.bindAddr]
  /\ pc' = "key"
  /\ UNCHANGED <<world, result, readVars, loopVars, effects, nlogged>>


SetListenAddr ==
  /\ Running("bind")
  /\ cfg' = IF world.bindAddr # <<>>
              THEN [cfg EXCEPT !.ListenAddr = world.bindAddr] ELSE cfg
  /\ pc' = "key"
  /\ UNCHANGED <<world, result, readVars, loopVars, effects, nlogged>>

(***************************************************************************)
(* SSH host key copy (lines 45-61).                                        *)
(***************************************************************************)
SshDir == Join(cfg.DataPath, <<"ssh">>)

KeyDst == Join(SshDir, Base(world.keyPath))

NoHostKey ==
  /\ Running("key")
  /\ world.keyPath = <<>>
  /\ pc' = "open"
  /\ UNCHANGED <<world, result, cfg, readVars, loopVars, effects, nlogged>>

MkdirSsh ==
  /\ Running("key")
  /\ world.keyPath # <<>>
  /\ \/ /\ Issue([op |-> "MkdirAll", path |-> SshDir])
        /\ pc' = "key_priv"
        /\ UNCHANGED <<world, result, cfg, readVars, loopVars, nlogged>>
     \/ Return("failed to create ssh directory")

\* Variant of CopyPrivateKey: a failed copy is logged and the run goes on.
CopyPrivateKeyLogged ==
  /\ Running("key_priv")
  /\ \/ /\ Issue([op |-> "copyFile", src |-> world.keyPath, dst |-> KeyDst])
        /\ Logged(FALSE)
     \/ /\ Logged(TRUE)
        /\ UNCHANGED effects
  /\ pc' = "key_pub"
  /\ UNCHANGED <<world, result, cfg, readVars, loopVars>>

CopyPrivateKey ==
  /\ Running("key_priv")
  /\ \/ /\ Issue([op |-> "copyFile", src |-> world.keyPath, dst |-> KeyDst])
        /\ pc' = "key_pub"
        /\ UNCHANGED <<world, result, cfg, readVars, loopVars, nlogged>>
     \/ Return("failed to copy ssh key")

\* Variant of CopyPublicKey: a failed copy ends the run like the private one.
CopyPublicKeyOrReturn ==
  /\ Running("key_pub")
  /\ \/ /\ Issue([op |-> "copyFile", src |-> Pub(world.keyPath), dst |-> Pub(KeyDst)])
        /\ cfg' = [cfg EXCEPT !.KeyPath = KeyDst]
        /\ pc' = "open"
        /\ UNCHANGED <<world, result, readVars, loopVars, nlogged>>
     \/ Return("failed to copy ssh key")

CopyPublicKey ==
  /\ Running("key_pub")
  /\ \/ /\ Issue([op |-> "copyFile", src |-> Pub(world.keyPath), dst |-> Pub(KeyDst)])
        /\ Logged(FALSE)
     \/ /\ Logged(TRUE)
        /\ UNCHANGED effects
  /\ cfg' = [cfg EXCEPT !.KeyPath = KeyDst]
  /\ pc' = "open"
  /\ UNCHANGED <<world, result, readVars, loopVars>>

(***************************************************************************)
(* Read the legacy config (lines 63-110).                                  *)
(***************************************************************************)
Open ==
  /\ Running("open")
  /\ \/ /\ pc' = "head"
        /\ UNCHANGED <<world, result, cfg, readVars, loopVars, effects, nlogged>>
     \/ Return("failed to open config repo")

HEAD ==
  /\ Running("head")
  /\ \/ /\ pc' = "tree"
        /\ UNCHANGED <<world, result, cfg, readVars, loopVars, effects, nlogged>>
     \/ Return("failed to get head")

TreePath ==
  /\ Running("tree")
  /\ \/ /\ pc' = "entry"
        /\ UNCHANGED <<world, result, cfg, readVars, loopVars, effects, nlogged>>
     \/ Return("failed to get tree")

\* tree.TreeEntry(name) fails when the tree has no such entry.
HasEntry(name) ==
  IF name = "config.yaml" THEN world.tree.yaml.enc # "absent"
                          ELSE world.tree.json.enc # "absent"

EntryFile(name) ==
  IF name = "config.yaml" THEN world.tree.yaml ELSE world.tree.json

\* Variant of TreeEntry: config.json is looked up first.
TreeEntryJsonFirst ==
  /\ Running("entry")
  /\ IF HasEntry("config.json")
       THEN /\ te' = "config.json" /\ isJson' = TRUE /\ pc' = "contents"
            /\ UNCHANGED result
       ELSE IF HasEntry("config.yaml")
         THEN /\ te' = "config.yaml" /\ isJson' = FALSE /\ pc' = "contents"
              /\ UNCHANGED result
         ELSE /\ result' = "failed to get config file"
              /\ UNCHANGED <<te, isJson, pc>>
  /\ UNCHANGED <<world, cfg, cc, ocfg, loopVars, effects, nlogged>>

TreeEntry ==
  /\ Running("entry")
  /\ IF HasEntry("config.yaml")
       THEN /\ te' = "config.yaml" /\ isJson' = FALSE /\ pc' = "contents"
            /\ UNCHANGED result
       ELSE IF HasEntry("config.json")
         THEN /\ te' = "config.json" /\ isJson' = TRUE /\ pc' = "contents"
              /\ UNCHANGED result
         ELSE /\ result' = "failed to get config file"
              /\ UNCHANGED <<te, isJson, pc>>
  /\ UNCHANGED <<world, cfg, cc, ocfg, loopVars, effects, nlogged>>

Contents ==
  /\ Running("contents")
  /\ \/ /\ cc' = EntryFile(te)
        /\ pc' = "decode"
        /\ UNCHANGED <<world, result, cfg, te, isJson, ocfg, loopVars, effects, nlogged>>
     \/ Return("failed to get config contents")

\* "ssh://%s:%d"
PublicURL(host, port) == <<"ssh://", host, ":", port>>

Unmarshal ==
  /\ Running("decode")
  /\ LET d == IF isJson THEN jsonUnmarshal(cc) ELSE yamlUnmarshal(cc)
     IN IF d.err
          THEN Return("failed to unmarshal config")
          ELSE /\ ocfg' = d.ocfg
               /\ cfg' = [cfg EXCEPT !.Name = d.ocfg.Name,
                                     !.PublicURL = PublicURL(d.ocfg.Host, d.ocfg.Port)]
               /\ pc' = "keyless"
               /\ UNCHANGED <<world, result, te, isJson, cc, loopVars, effects, nlogged>>

(***************************************************************************)
(* Server settings (lines 112-122).                                        *)
(***************************************************************************)
SetAllowKeyless ==
  /\ Running("keyless")
  /\ Issue([op |-> "SetAllowKeyless", allow |-> ocfg.AllowKeyless])
  /\ \E failed \in BOOLEAN : Logged(failed)
  /\ pc' = "anon"
  /\ UNCHANGED <<world, result, cfg, readVars, loopVars>>

\* Variant of SetAnonAccess: the level is passed on whatever it is.
SetAnonAccessUnchecked ==
  /\ Running("anon")
  /\ Issue([op |-> "SetAnonAccess", level |-> ParseAccessLevel(ocfg.AnonAccess)])
  /\ \E failed \in BOOLEAN : Logged(failed)
  /\ pc' = "repos"
  /\ UNCHANGED <<world, result, cfg, readVars, loopVars>>


SetAnonAccess ==
  /\ Running("anon")
  /\ LET anon == ParseAccessLevel(ocfg.AnonAccess)
     IN IF anon >= 0
          THEN /\ Issue([op |-> "SetAnonAccess", level |-> anon])
               /\ \E failed \in BOOLEAN : Logged(failed)
          ELSE UNCHANGED <<effects, nlogged>>
  /\ pc' = "repos"
  /\ UNCHANGED <<world, result, cfg, readVars, loopVars>>

(***************************************************************************)
(* Copy repos (lines 124-156).                                             *)
(***************************************************************************)
\* Variant of NoReposPath: without a storage root the metadata is skipped too.
NoReposPathNoMetadata ==
  /\ Running("repos")
  /\ world.reposPath = <<>>
  /\ pc' = "user"
  /\ UNCHANGED <<world, result, cfg, readVars, loopVars, effects, nlogged>>

\* `if reposPath != ""` (line 125): without a storage root nothing is copied.
NoReposPath ==
  /\ Running("repos")
  /\ world.reposPath = <<>>
  /\ pc' = "meta"
  /\ UNCHANGED <<world, result, cfg, readVars, loopVars, effects, nlogged>>

ReadDir ==
  /\ Running("repos")
  /\ world.reposPath # <<>>
  /\ \/ /\ dirs' = world.root
        /\ idx' = 1
        /\ pc' = "dir"
        /\ UNCHANGED <<world, result, cfg, readVars, sub, pubkeys, effects, nlogged>>
     \/ Return("failed to read repos directory")

\* Loop head (lines 132-139): skip what is no git directory.
\* Variant of NextDir: every directory is imported, repository or not.
NextDirAnyDir ==
  /\ Running("dir")
  /\ IF idx > Len(dirs)
       THEN /\ pc' = "meta" /\ idx' = 1
       ELSE IF ~dirs[idx].isDir
         THEN /\ pc' = "dir" /\ idx' = idx + 1
         ELSE /\ pc' = "repos_mkdir" /\ idx' = idx
  /\ UNCHANGED <<world, result, cfg, readVars, dirs, sub, pubkeys, effects, nlogged>>


NextDir ==
  /\ Running("dir")
  /\ IF idx > Len(dirs)
       THEN /\ pc' = "meta" /\ idx' = 1
       ELSE IF ~dirs[idx].isDir \/ ~isGitDir(dirs[idx])
         THEN /\ pc' = "dir" /\ idx' = idx + 1
         ELSE /\ pc' = "repos_mkdir" /\ idx' = idx
  /\ UNCHANGED <<world, result, cfg, readVars, dirs, sub, pubkeys, effects, nlogged>>

ReposDir == Join(cfg.DataPath, <<"repos">>)

MkdirRepos ==
  /\ Running("repos_mkdir")
  /\ \/ /\ Issue([op |-> "MkdirAll", path |-> ReposDir])
        /\ pc' = "copy"
        /\ UNCHANGED <<world, result, cfg, readVars, loopVars, nlogged>>
     \/ Return("failed to create repos directory")

\* backend.RepositoryOptions{}: the options that are set.
RepositoryOptions == {}

CopySrc(name) == SanitizeRepo(Join(world.reposPath, <<name>>))

CopyDst(name) == SanitizeRepo(Join(ReposDir, <<name>>)) \o <<".git">>

\* Variant of AfterCopy: the error of copyDir is dropped and the loop goes on.
AfterCopyContinue(err) ==
  /\ pc' = "create"
  /\ UNCHANGED result

\* Lines 146-150: what the loop does with the result of copyDir.
AfterCopy(err) ==
  IF err
    THEN /\ result' = "failed to copy repo"
         /\ UNCHANGED pc
    ELSE /\ pc' = "create"
         /\ UNCHANGED result

CopyRepo ==
  /\ Running("copy")
  /\ \E faults \in FaultPlans(dirs[idx]) :
       LET r == copyDir(dirs[idx], <<>>, faults)
       IN /\ Issue([op |-> "copyDir", name |-> dirs[idx].name,
                    src |-> CopySrc(dirs[idx].name), dst |-> CopyDst(dirs[idx].name),
                    err |-> r.err, tried |-> r.tried, made |-> r.made])
          /\ AfterCopy(r.err)
  /\ UNCHANGED <<world, cfg, readVars, loopVars, nlogged>>

\* Variant of CreateRepository: a failed registration ends the run.
CreateRepositoryOrReturn ==
  /\ Running("create")
  /\ \/ /\ Issue([op |-> "CreateRepository", name |-> dirs[idx].name,
               opts |-> RepositoryOptions])
        /\ idx' = idx + 1
        /\ pc' = "dir"
        /\ UNCHANGED <<world, result, cfg, readVars, dirs, sub, pubkeys, nlogged>>
     \/ Return("failed to create repository")

\* Variant of CreateRepository: a directory whose copy is incomplete is not
\* registered.
CreateRepositoryIfComplete ==
  /\ Running("create")
  /\ IF effects[Len(effects)].made = effects[Len(effects)].tried
       THEN /\ Issue([op |-> "CreateRepository", name |-> dirs[idx].name,
                      opts |-> RepositoryOptions])
            /\ \E failed \in BOOLEAN : Logged(failed)
       ELSE UNCHANGED <<effects, nlogged>>
  /\ idx' = idx + 1
  /\ pc' = "dir"
  /\ UNCHANGED <<world, result, cfg, readVars, dirs, sub, pubkeys>>


CreateRepository ==
  /\ Running("create")
  /\ Issue([op |-> "CreateRepository", name |-> dirs[idx].name,
               opts |-> RepositoryOptions])
  /\ \E failed \in BOOLEAN : Logged(failed)
  /\ idx' = idx + 1
  /\ pc' = "dir"
  /\ UNCHANGED <<world, result, cfg, readVars, dirs, sub, pubkeys>>

(***************************************************************************)
(* Repos metadata and collaborators (lines 158-178).                       *)
(***************************************************************************)
NextRepo ==
  /\ Running("meta")
  /\ IF idx > Len(ocfg.Repos)
       THEN /\ pc' = "user" /\ idx' = 1
       ELSE /\ pc' = "meta_name" /\ idx' = idx
  /\ UNCHANGED <<world, result, cfg, readVars, dirs, sub, pubkeys, effects, nlogged>>

\* Variant of SetProjectName: a failure moves on to the next repos[] entry.
SetProjectNameOrSkip ==
  /\ Running("meta_name")
  /\ Issue([op |-> "SetProjectName", repo |-> ocfg.Repos[idx].Repo,
            name |-> ocfg.Repos[idx].Name])
  /\ \E failed \in BOOLEAN :
       /\ Logged(failed)
       /\ IF failed THEN pc' = "meta" /\ idx' = idx + 1
                    ELSE pc' = "meta_desc" /\ idx' = idx
  /\ UNCHANGED <<world, result, cfg, readVars, dirs, sub, pubkeys>>


SetProjectName ==
  /\ Running("meta_name")
  /\ Issue([op |-> "SetProjectName", repo |-> ocfg.Repos[idx].Repo,
            name |-> ocfg.Repos[idx].Name])
  /\ \E failed \in BOOLEAN : Logged(failed)
  /\ pc' = "meta_desc"
  /\ UNCHANGED <<world, result, cfg, readVars, loopVars>>

SetDescription ==
  /\ Running("meta_desc")
  /\ Issue([op |-> "SetDescription", repo |-> ocfg.Repos[idx].Repo,
            desc |-> ocfg.Repos[idx].Note])
  /\ \E failed \in BOOLEAN : Logged(failed)
  /\ pc' = "meta_private"
  /\ UNCHANGED <<world, result, cfg, readVars, loopVars>>

SetPrivate ==
  /\ Running("meta_private")
  /\ Issue([op |-> "SetPrivate", repo |-> ocfg.Repos[idx].Repo,
            private |-> ocfg.Repos[idx].Private])
  /\ \E failed \in BOOLEAN : Logged(failed)
  /\ pc' = "meta_collab"
  /\ sub' = 1
  /\ UNCHANGED <<world, result, cfg, readVars, dirs, idx, pubkeys>>

\* Variant of AddCollaborator: the collaborator is granted under a name with
\* hyphens for spaces.
AddCollaboratorCanonical ==
  /\ Running("meta_collab")
  /\ IF sub > Len(ocfg.Repos[idx].Collabs)
       THEN /\ pc' = "meta" /\ idx' = idx + 1 /\ sub' = 1
            /\ UNCHANGED <<effects, nlogged>>
       ELSE /\ Issue([op |-> "AddCollaborator", from |-> "repos",
                      repo |-> ocfg.Repos[idx].Repo,
                      user |-> [k \in DOMAIN ocfg.Repos[idx].Collabs[sub] |->
                                  IF ocfg.Repos[idx].Collabs[sub][k] = " "
                                    THEN "-"
                                    ELSE ocfg.Repos[idx].Collabs[sub][k]]])
            /\ \E failed \in BOOLEAN : Logged(failed)
            /\ pc' = "meta_collab" /\ idx' = idx /\ sub' = sub + 1
  /\ UNCHANGED <<world, result, cfg, readVars, dirs, pubkeys>>


AddCollaborator ==
  /\ Running("meta_collab")
  /\ IF sub > Len(ocfg.Repos[idx].Collabs)
       THEN /\ pc' = "meta" /\ idx' = idx + 1 /\ sub' = 1
            /\ UNCHANGED <<effects, nlogged>>
       ELSE /\ Issue([op |-> "AddCollaborator", from |-> "repos",
                      repo |-> ocfg.Repos[idx].Repo,
                      user |-> ocfg.Repos[idx].Collabs[sub]])
            /\ \E failed \in BOOLEAN : Logged(failed)
            /\ pc' = "meta_collab" /\ idx' = idx /\ sub' = sub + 1
  /\ UNCHANGED <<world, result, cfg, readVars, dirs, pubkeys>>

(***************************************************************************)
(* Users and their collaborations (lines 180-213).                         *)
(***************************************************************************)
UpperCase == <<"A","B","C","D","E","F","G","H","I","J","K","L","M",
               "N","O","P","Q","R","S","T","U","V","W","X","Y","Z">>
LowerCase == <<"a","b","c","d","e","f","g","h","i","j","k","l","m",
               "n","o","p","q","r","s","t","u","v","w","x","y","z">>

\* strings.ToLower
ToLower(s) ==
  [k \in DOMAIN s |->
     IF \E n \in DOMAIN UpperCase : UpperCase[n] = s[k]
       THEN LowerCase[CHOOSE n \in DOMAIN UpperCase : UpperCase[n] = s[k]]
       ELSE s[k]]

\* strings.ReplaceAll(s, old, new) for one-character old and new
ReplaceAll(s, old, new) == [k \in DOMAIN s |-> IF s[k] = old THEN new ELSE s[k]]

\* Variant of Username: lower-cased only, spaces kept.
UsernameLowerOnly(user) == ToLower(user.Name)


\* Lines 198-199.
Username(user) == ReplaceAll(ToLower(user.Name), " ", "-")

\* Variant of MapKey: the map is keyed by the raw string.
MapKeyRaw(key, pk) == key

\* Line 189: the key under which a parsed key is stored in the map `keys`.
MapKey(key, pk) == MarshalAuthorizedKey(pk)

\* Lines 183-191: the map `keys` after the first n strings, as a set of
\* entries with distinct ak.  A string that does not parse is skipped.
RECURSIVE KeyMap(_, _)
KeyMap(PublicKeys, n) ==
  IF n = 0 THEN {}
  ELSE LET keys == KeyMap(PublicKeys, n - 1)
           p == ParseAuthorizedKey(PublicKeys[n])
           ak == MapKey(PublicKeys[n], p.pk)
       IN IF p.err THEN keys
          ELSE {e \in keys : e.ak # ak} \cup {[ak |-> ak, pk |-> p.pk]}

\* Lines 193-196: `for _, pk := range keys` visits the map in an order the
\* language leaves unspecified; every order is a possible slice.
PubkeySlices(PublicKeys) ==
  {[k \in DOMAIN order |-> order[k].pk] :
     order \in Perms(KeyMap(PublicKeys, Len(PublicKeys)))}

\* Variant of NextUser: a user with a key that does not parse is skipped.
NextUserStrict ==
  /\ Running("user")
  /\ IF idx > Len(ocfg.Users)
       THEN /\ pc' = "write"
            /\ UNCHANGED <<pubkeys, idx>>
       ELSE IF \E k \in DOMAIN ocfg.Users[idx].PublicKeys :
                 ParseAuthorizedKey(ocfg.Users[idx].PublicKeys[k]).err
         THEN /\ pc' = "user" /\ idx' = idx + 1
              /\ UNCHANGED pubkeys
         ELSE /\ pubkeys' \in PubkeySlices(ocfg.Users[idx].PublicKeys)
              /\ pc' = "create_user"
              /\ UNCHANGED idx
  /\ UNCHANGED <<world, result, cfg, readVars, dirs, sub, effects, nlogged>>

\* Variant of NextUser: the configuration is saved after every user.
NextUserSaving ==
  /\ Running("user")
  /\ IF idx > Len(ocfg.Users)
       THEN /\ pc' = "write"
            /\ UNCHANGED <<pubkeys, effects>>
       ELSE /\ pubkeys' \in PubkeySlices(ocfg.Users[idx].PublicKeys)
            /\ pc' = "create_user"
            /\ Issue([op |-> "WriteConfig", path |-> Join(cfg.DataPath, <<"config.yaml">>),
                      cfg |-> cfg, err |-> FALSE])
  /\ UNCHANGED <<world, result, cfg, readVars, dirs, idx, sub, nlogged>>

NextUser ==
  /\ Running("user")
  /\ IF idx > Len(ocfg.Users)
       THEN /\ pc' = "write"
            /\ UNCHANGED pubkeys
       ELSE /\ pubkeys' \in PubkeySlices(ocfg.Users[idx].PublicKeys)
            /\ pc' = "create_user"
  /\ UNCHANGED <<world, result, cfg, readVars, dirs, idx, sub, effects, nlogged>>

\* Lines 201-206: the error of CreateUser is logged, nothing else.
CreateUser ==
  /\ Running("create_user")
  /\ \E failed \in BOOLEAN :
       /\ Issue([op |-> "CreateUser", name |-> Username(ocfg.Users[idx]),
                 admin |-> ocfg.Users[idx].Admin, keys |-> pubkeys,
                 err |-> failed])
       /\ Logged(failed)
  /\ pc' = "user_collab"
  /\ sub' = 1
  /\ UNCHANGED <<world, result, cfg, readVars, dirs, idx, pubkeys>>

\* Variant of AddUserCollab: the collaborations of a user whose creation
\* failed are skipped.
AddUserCollabIfCreated ==
  /\ Running("user_collab")
  /\ IF sub > Len(ocfg.Users[idx].CollabRepos)
        \/ effects[Len(effects) - (sub - 1)].err
       THEN /\ pc' = "user" /\ idx' = idx + 1 /\ sub' = 1
            /\ UNCHANGED <<effects, nlogged>>
       ELSE /\ Issue([op |-> "AddCollaborator", from |-> "users",
                      repo |-> ocfg.Users[idx].CollabRepos[sub],
                      user |-> Username(ocfg.Users[idx])])
            /\ \E failed \in BOOLEAN : Logged(failed)
            /\ pc' = "user_collab" /\ idx' = idx /\ sub' = sub + 1
  /\ UNCHANGED <<world, result, cfg, readVars, dirs, pubkeys>>

AddUserCollab ==
  /\ Running("user_collab")
  /\ IF sub > Len(ocfg.Users[idx].CollabRepos)
       THEN /\ pc' = "user" /\ idx' = idx + 1 /\ sub' = 1
            /\ UNCHANGED <<effects, nlogged>>
       ELSE /\ Issue([op |-> "AddCollaborator", from |-> "users",
                      repo |-> ocfg.Users[idx].CollabRepos[sub],
                      user |-> Username(ocfg.Users[idx])])
            /\ \E failed \in BOOLEAN : Logged(failed)
            /\ pc' = "user_collab" /\ idx' = idx /\ sub' = sub + 1
  /\ UNCHANGED <<world, result, cfg, readVars, dirs, pubkeys>>

(***************************************************************************)
(* Write the target configuration (lines 215-217).                         *)
(***************************************************************************)
WriteConfig ==
  /\ Running("write")
  /\ \/ /\ Issue([op |-> "WriteConfig", path |-> Join(cfg.DataPath, <<"config.yaml">>),
                  cfg |-> cfg, err |-> FALSE])
        /\ result' = "ok"
     \/ /\ Issue([op |-> "WriteConfig", path |-> Join(cfg.DataPath, <<"config.yaml">>),
                  cfg |-> cfg, err |-> TRUE])
        /\ result' = "failed to write config"
  /\ pc' = "done"
  /\ UNCHANGED <<world, cfg, readVars, loopVars, nlogged>>

Next ==
  \/ NewSqliteBackend
  \/ SetListenAddr
  \/ NoHostKey \/ MkdirSsh \/ CopyPrivateKey \/ CopyPublicKey
  \/ Open \/ HEAD \/ TreePath \/ TreeEntry \/ Contents \/ Unmarshal
  \/ SetAllowKeyless \/ SetAnonAccess
  \/ NoReposPath \/ ReadDir \/ NextDir \/ MkdirRepos \/ CopyRepo \/ CreateRepository
  \/ NextRepo \/ SetProjectName \/ SetDescription \/ SetPrivate \/ AddCollaborator
  \/ NextUser \/ CreateUser \/ AddUserCollab
  \/ WriteConfig

Spec == Init /\ [][Next]_vars

(***************************************************************************)
(* The phases of the run, as the section comments of RunE delimit them.    *)
(***************************************************************************)
Phases ==
  << "Init", "SSHBindAddress", "SSHHostKeyCopy", "ReadLegacyConfig",
     "ServerSettings", "RepositoryImport", "RepositoryMetadata", "UserCreation",
     "WriteFinalConfig", "Done" >>

PhaseOf(at) ==
  CASE at = "start" -> "Init"
    [] at = "bind" -> "SSHBindAddress"
    [] at \in {"key", "key_priv", "key_pub"} -> "SSHHostKeyCopy"
    [] at \in {"open", "head", "tree", "entry", "contents", "decode"} -> "ReadLegacyConfig"
    [] at \in {"keyless", "anon"} -> "ServerSettings"
    [] at \in {"repos", "dir", "repos_mkdir", "copy", "create"} -> "RepositoryImport"
    [] at \in {"meta", "meta_name", "meta_desc", "meta_private", "meta_collab"}
         -> "RepositoryMetadata"
    [] at \in {"user", "create_user", "user_collab"} -> "UserCreation"
    [] at = "write" -> "WriteFinalConfig"
    [] at = "done" -> "Done"

PhaseRank(at) == CHOOSE n \in DOMAIN Phases : Phases[n] = PhaseOf(at)

RankOf(phase) == CHOOSE n \in DOMAIN Phases : Phases[n] = phase

(***************************************************************************)
(* Vocabulary of the properties.                                           *)
(***************************************************************************)
\* Positions of the effects of one kind, and the m-th of them.
Ops(o) == {k \in DOMAIN effects : effects[k].op = o}

NthOp(o, m) == CHOOSE k \in Ops(o) : Cardinality({j \in Ops(o) : j < k}) = m - 1

Aborted == result \notin {"running", "ok"}

FailedCopies == {k \in Ops("copyDir") : effects[k].err}

UserCollabs ==
  {k \in Ops("AddCollaborator") : effects[k].from = "users"}

GitDirs(ds) == {k \in DOMAIN ds : ds[k].isDir /\ isGitDir(ds[k])}

CreateBefore(k) ==
  CHOOSE j \in Ops("CreateUser") :
    j < k /\ \A n \in Ops("CreateUser") : n < k => n <= j

C2_CollabsOnlyAfterCreated ==
  \A k \in UserCollabs :
    /\ \E j \in Ops("CreateUser") : j < k
    /\ ~effects[CreateBefore(k)].err

\* The users whose loop iteration is over.
UsersDone ==
  IF pc \in {"write", "done"} THEN Len(ocfg.Users)
  ELSE IF pc \in {"user", "create_user", "user_collab"} THEN idx - 1
  ELSE 0

\* C2, as the code has it: the error of create-user is only logged.  For
\* every legacy user, failed or not, the create-user call is followed by
\* one add-collaborator call per collab-repo, in list order, under the
\* user's canonical name; and every per-user add-collaborator call comes
\* after a create-user call for that name.
C2_CollabsFollowEveryCreate ==
  /\ \A m \in 1..UsersDone :
       LET u == ocfg.Users[m]
           k == NthOp("CreateUser", m)
       IN /\ Cardinality(Ops("CreateUser")) >= m
          /\ \A j \in DOMAIN u.CollabRepos :
               /\ k + j <= Len(effects)
               /\ k + j \in UserCollabs
               /\ effects[k + j].repo = u.CollabRepos[j]
               /\ effects[k + j].user = effects[k].name
  /\ \A k \in UserCollabs :
       /\ \E j \in Ops("CreateUser") : j < k
       /\ effects[CreateBefore(k)].name = effects[k].user

\* A user whose creation failed and who was granted a collaboration anyway.
C2_Witness ==
  \E k \in UserCollabs :
    /\ effects[CreateBefore(k)].err
    /\ result = "ok"

(***************************************************************************)
(* C3.  As claimed: unless one of the fatal steps the specification lists  *)
(* fails (backend initialization, store open / head / tree, config decode, *)
(* private-key copy, repositories-directory creation, final write), the    *)
(* run reaches the final write and succeeds.                               *)
(***************************************************************************)
ListedFatal ==
  { "failed to create sqlite backend", "failed to open config repo",
    "failed to get head", "failed to get tree", "failed to unmarshal config",
    "failed to copy ssh key", "failed to create repos directory",
    "failed to write config" }

C3_OnlyListedStepsAbort ==
  /\ Aborted => result \in ListedFatal
  /\ result = "running" => ENABLED Next

\* The steps of the code that end the run although the list omits them.
UnlistedFatal ==
  { "failed to create ssh directory", "failed to get config file",
    "failed to get config contents", "failed to read repos directory",
    "failed to copy repo" }

\* The best-effort backend calls: each failure is one logged line.
BestEffortOps ==
  { "SetAllowKeyless", "SetAnonAccess", "CreateRepository", "SetProjectName",
    "SetDescription", "SetPrivate", "AddCollaborator", "CreateUser" }

BestEffortCalls == {k \in DOMAIN effects : effects[k].op \in BestEffortOps}

\* C3, as the code has it: the run ends with an error only through a fatal
\* step, the listed ones or SSH-directory creation, the config-file lookup,
\* reading the config file, listing the storage root, or a repository tree
\* copy.  No failure of a best-effort step ends it: a run that is not over
\* can always go on, and it is over only after the final write or a fatal
\* step.
C3_OnlyFatalStepsAbort ==
  /\ Aborted => result \in ListedFatal \cup UnlistedFatal
  /\ result = "running" => ENABLED Next
  /\ result = "ok" <=> (pc = "done" /\ ~Aborted)
  /\ nlogged <= Cardinality(BestEffortCalls) + 1

\* Every best-effort step of a run with work in every phase failed, the
\* public-key copy included, and the run succeeded.
C3_Witness ==
  /\ result = "ok"
  /\ nlogged = Cardinality(BestEffortCalls) + 1
  /\ \A o \in BestEffortOps : Ops(o) # {}
  /\ UserCollabs # {}

(***************************************************************************)
(* C4.  A failing fatal step (backend initialization, store open / head /  *)
(* tree, config-file lookup or decode, private-key copy, repositories-     *)
(* directory creation) ends the run on the spot with an error: the failing *)
(* step issues nothing, nothing is issued after it, the configuration is   *)
(* never written, and what was done before stays done.  Conversely the run *)
(* gets past such a step only when the step succeeded.                     *)
(***************************************************************************)
AbortingSteps ==
  { "failed to create sqlite backend", "failed to open config repo",
    "failed to get head", "failed to get tree", "failed to get config file",
    "failed to unmarshal config", "failed to copy ssh key",
    "failed to create repos directory" }

IsPrefix(s, t) == Len(s) <= Len(t) /\ SubSeq(t, 1, Len(s)) = s

C4_FatalStepAborts ==
  [][ /\ result = "running"
      /\ IsPrefix(effects, effects')
      /\ result' \in AbortingSteps =>
           /\ effects' = effects /\ cfg' = cfg /\ pc' = pc
           /\ \A k \in DOMAIN effects : effects[k].op # "WriteConfig"
      /\ PhaseRank(pc') > RankOf("Init") =>
           effects'[1].op = "NewSqliteBackend"
      /\ (PhaseRank(pc') > RankOf("SSHHostKeyCopy") /\ world.keyPath # <<>>) =>
           \E k \in DOMAIN effects' :
             effects'[k].op = "copyFile" /\ effects'[k].src = world.keyPath
      /\ PhaseRank(pc') > RankOf("ReadLegacyConfig") =>
           /\ te' \in {"config.yaml", "config.json"} /\ HasEntry(te')
           /\ cc'.enc \in {"yaml", "json"} /\ ocfg' = cc'.doc
      /\ \A k \in DOMAIN effects' :
           effects'[k].op = "copyDir" =>
             /\ k > 1 /\ effects'[k - 1].op = "MkdirAll"
             /\ effects'[k - 1].path = <<"data", Sep, "repos">>
    ]_vars

\* The directory for the second repository could not be created: the run
\* ended there, and the first repository stays copied and registered.
C4_Witness ==
  /\ result = "failed to create repos directory"
  /\ Ops("CreateRepository") # {}
  /\ Ops("WriteConfig") = {}

(***************************************************************************)
(* C5.  The final configuration is written at most once, as the last thing *)
(* the run does and after every other phase has finished; a successful run *)
(* has written it exactly once, and nothing is issued after the write.     *)
(***************************************************************************)
C5_WrittenOnceAtEnd ==
  /\ Cardinality(Ops("WriteConfig")) <= 1
  /\ \A k \in Ops("WriteConfig") :
       /\ k = Len(effects)
       /\ pc = "done"
       /\ effects[k].err <=> result = "failed to write config"
       /\ Cardinality(Ops("CreateUser")) = Len(ocfg.Users)
       /\ Cardinality(Ops("SetProjectName")) = Len(ocfg.Repos)
       /\ Cardinality(Ops("SetPrivate")) = Len(ocfg.Repos)
       /\ world.reposPath # <<>> =>
            Cardinality(Ops("CreateRepository")) = Cardinality(GitDirs(world.root))
       /\ Ops("SetAllowKeyless") # {}
  /\ result = "ok" =>
       /\ Cardinality(Ops("WriteConfig")) = 1
       /\ ~effects[Len(effects)].err
  /\ pc = "done" <=> Ops("WriteConfig") # {}

\* A successful run over two users: one write, after both were created.
C5_Witness ==
  /\ result = "ok"
  /\ Cardinality(Ops("WriteConfig")) = 1
  /\ Cardinality(Ops("CreateUser")) = 2

(***************************************************************************)
(* C6.  The run moves through the phases Init, SSHBindAddress,             *)
(* SSHHostKeyCopy, ReadLegacyConfig, ServerSettings, RepositoryImport,     *)
(* RepositoryMetadata, UserCreation, WriteFinalConfig, Done in that order: *)
(* every step stays in its phase or enters the next one, so no phase is    *)
(* skipped, entered twice or returned to.                                  *)
(***************************************************************************)
C6_PhasesInOrder ==
  [][ PhaseRank(pc') \in {PhaseRank(pc), PhaseRank(pc) + 1} ]_vars

\* A run that went through every phase, each with work to do.
C6_Witness ==
  /\ pc = "done"
  /\ result = "ok"
  /\ \A o \in BestEffortOps \cup {"copyFile", "copyDir", "MkdirAll"} : Ops(o) # {}

(***************************************************************************)
(* C7.  The config reader looks up config.yaml first and config.json       *)
(* second.  When config.yaml exists it is the entry read and it is decoded *)
(* as YAML, whether or not config.json exists; config.json is read, and    *)
(* decoded as JSON, only when there is no config.yaml; with neither entry  *)
(* the run fails before any server setting reaches the backend.            *)
(***************************************************************************)
HasYaml == world.tree.yaml.enc # "absent"

HasJson == world.tree.json.enc # "absent"

EntryChosen == pc \in {"contents", "decode"} \/ PhaseRank(pc) > RankOf("ReadLegacyConfig")

C7_YamlBeforeJson ==
  /\ EntryChosen =>
       IF HasYaml THEN te = "config.yaml" /\ ~isJson
                  ELSE te = "config.json" /\ isJson /\ HasJson
  /\ PhaseRank(pc) > RankOf("ReadLegacyConfig") =>
       IF HasYaml
         THEN /\ cc = world.tree.yaml /\ ocfg = world.tree.yaml.doc
              /\ world.tree.yaml.enc \in {"yaml", "json"}
         ELSE /\ cc = world.tree.json /\ ocfg = world.tree.json.doc
              /\ world.tree.json.enc = "json"
  /\ result = "failed to unmarshal config" =>
       IF HasYaml THEN world.tree.yaml.enc = "garbage"
                  ELSE world.tree.json.enc \in {"yaml", "garbage"}
  /\ result = "failed to get config file" => ~HasYaml /\ ~HasJson
  /\ (~HasYaml /\ ~HasJson) =>
       /\ PhaseRank(pc) <= RankOf("ReadLegacyConfig")
       /\ pc \notin {"contents", "decode"}
       /\ Ops("SetAllowKeyless") = {} /\ Ops("SetAnonAccess") = {}

\* Both entries exist, each a valid document of its own encoding, and the
\* run went on with the YAML one.
C7_Witness ==
  /\ world.tree.yaml.enc = "yaml" /\ world.tree.json.enc = "json"
  /\ world.tree.yaml.doc # world.tree.json.doc
  /\ PhaseRank(pc) > RankOf("ReadLegacyConfig")
  /\ ocfg = world.tree.yaml.doc

(***************************************************************************)
(* C8.  With a legacy key path: a failed private-key copy ends the run; a  *)
(* failed public-key copy is only logged and the run goes on; whenever the *)
(* private key was copied, the target SSH key path becomes the copy under  *)
(* <data path>/ssh/.  Without a legacy key path nothing is copied and the  *)
(* target SSH key path stays the default.                                  *)
(***************************************************************************)
KeyCopies == Ops("copyFile")

C8_HostKeyCopy ==
  LET after == PhaseRank(pc) > RankOf("SSHHostKeyCopy")
      copy == <<"data", Sep, "ssh", Sep, world.keyPath[Len(world.keyPath)]>>
  IN /\ world.keyPath = <<>> =>
          /\ KeyCopies = {}
          /\ \A k \in Ops("MkdirAll") : effects[k].path # <<"data", Sep, "ssh">>
          /\ cfg.KeyPath = DefaultConfig.KeyPath
     /\ (world.keyPath # <<>> /\ after) =>
          /\ cfg.KeyPath = copy
          /\ \E k \in KeyCopies :
               effects[k].src = world.keyPath /\ effects[k].dst = copy
          /\ \A k \in KeyCopies :
               effects[k].src # world.keyPath =>
                 /\ effects[k].src = world.keyPath \o <<".pub">>
                 /\ effects[k].dst = copy \o <<".pub">>
     /\ (world.keyPath # <<>> /\ ~after) => cfg.KeyPath = DefaultConfig.KeyPath
     /\ result = "failed to copy ssh key" => pc = "key_priv" /\ KeyCopies = {}
     /\ pc = "key_pub" => result = "running"

\* The public key could not be copied, the private key could: the run
\* succeeded and the written configuration points at the copy.
C8_Witness ==
  /\ result = "ok"
  /\ world.keyPath # <<>>
  /\ Cardinality(KeyCopies) = 1
  /\ effects[Len(effects)].cfg.KeyPath = <<"data", Sep, "ssh", Sep, "soft_serve">>

(***************************************************************************)
(* C9.  The key list passed to create-user holds exactly one entry per     *)
(* distinct canonical marshaled key among the user's parseable public-key  *)
(* strings: none twice, none missing, whatever the repetitions and         *)
(* encodings in the legacy list.                                           *)
(***************************************************************************)
Parseable(PublicKeys) ==
  {k \in DOMAIN PublicKeys : ~ParseAuthorizedKey(PublicKeys[k]).err}

Canonical(PublicKeys) ==
  {MarshalAuthorizedKey(ParseAuthorizedKey(PublicKeys[k]).pk) :
     k \in Parseable(PublicKeys)}

C9_OneEntryPerCanonicalKey ==
  \A m \in 1..Cardinality(Ops("CreateUser")) :
    LET passed == effects[NthOp("CreateUser", m)].keys
        wanted == Canonical(ocfg.Users[m].PublicKeys)
    IN /\ {MarshalAuthorizedKey(passed[k]) : k \in DOMAIN passed} = wanted
       /\ Len(passed) = Cardinality(wanted)

\* A user listing the same key twice, in two encodings: one key is passed.
C9_Witness ==
  \E m \in 1..Cardinality(Ops("CreateUser")) :
    LET listed == ocfg.Users[m].PublicKeys
    IN /\ Len(listed) = 2 /\ listed[1] # listed[2]
       /\ Cardinality(Parseable(listed)) = 2
       /\ Len(effects[NthOp("CreateUser", m)].keys) = 1

(***************************************************************************)
(* C10.  A public-key string that does not parse is skipped and nothing    *)
(* else: create-user is attempted exactly once per legacy user, in list    *)
(* order, with the user's admin flag, however many of the user's keys fail *)
(* to parse; when all fail, the key list passed is empty.                  *)
(***************************************************************************)
UsersCreated == IF pc = "user_collab" THEN idx ELSE UsersDone

C10_OneCreatePerUser ==
  /\ Cardinality(Ops("CreateUser")) = UsersCreated
  /\ \A m \in 1..Cardinality(Ops("CreateUser")) :
       LET e == effects[NthOp("CreateUser", m)]
           u == ocfg.Users[m]
       IN /\ e.name = Username(u)
          /\ e.admin = u.Admin
          /\ Len(e.keys) <= Cardinality(Parseable(u.PublicKeys))
          /\ Parseable(u.PublicKeys) = {} => e.keys = <<>>

\* Two users created in list order, one of them with keys that all failed
\* to parse and so with no key at all.
C10_Witness ==
  /\ Cardinality(Ops("CreateUser")) = 2
  /\ \E m \in 1..2 :
       /\ ocfg.Users[m].PublicKeys # <<>>
       /\ Parseable(ocfg.Users[m].PublicKeys) = {}
       /\ effects[NthOp("CreateUser", m)].keys = <<>>
  /\ ocfg.Users[1].Admin # ocfg.Users[2].Admin
  /\ result = "ok"

(***************************************************************************)
(* C11.  The importer copies and registers exactly the entries of the      *)
(* legacy storage root that are directories passing isGitDir, in the order *)
(* ReadDir returns them: every tree copy is of such an entry, every        *)
(* create-repository follows the copy of the same entry and carries the    *)
(* entry's base name and empty options, plain files and other directories  *)
(* get neither, and once the import phase is over every such entry has     *)
(* both.  Without a legacy storage root path there is no copy and no       *)
(* create-repository at all.                                               *)
(***************************************************************************)
EffectsOf(o) == SelectSeq(effects, LAMBDA e : e.op = o)

Names(s) == [k \in DOMAIN s |-> s[k].name]

AcceptedNames == Names(SelectSeq(world.root, LAMBDA d : d.isDir /\ isGitDir(d)))

C11_ImportsExactlyGitDirs ==
  LET copies == Names(EffectsOf("copyDir"))
      creates == Names(EffectsOf("CreateRepository"))
  IN /\ IsPrefix(copies, AcceptedNames)
     /\ IsPrefix(creates, copies)
     /\ \A k \in Ops("CreateRepository") : effects[k].opts = {}
     /\ world.reposPath = <<>> => (copies = <<>> /\ creates = <<>>)
     /\ (PhaseRank(pc) > RankOf("RepositoryImport") /\ world.reposPath # <<>>) =>
          (copies = AcceptedNames /\ creates = AcceptedNames)

\* A storage root with a repository and a directory that is not one: after
\* the import only the repository was copied and registered.
C11_Witness ==
  /\ PhaseRank(pc) > RankOf("RepositoryImport")
  /\ Len(world.root) = 2
  /\ \E k \in DOMAIN world.root : world.root[k].isDir /\ ~isGitDir(world.root[k])
  /\ Names(EffectsOf("copyDir")) = <<"r1">>
  /\ Names(EffectsOf("CreateRepository")) = <<"r1">>

(***************************************************************************)
(* C12.  For every repos[] entry of the legacy document, in list order,    *)
(* set-project-name, set-description, set-private and one add-collaborator *)
(* per listed collaborator are each issued exactly once, whether or not    *)
(* earlier calls failed and whether or not a directory of that name was    *)
(* imported.  No such failure ends the run: the metadata phase is always   *)
(* left towards user creation with every entry served.                     *)
(***************************************************************************)
\* The calls lines 160-177 make for one repos[] entry.
MetaCalls(r) ==
  << [op |-> "SetProjectName", repo |-> r.Repo, name |-> r.Name],
     [op |-> "SetDescription", repo |-> r.Repo, desc |-> r.Note],
     [op |-> "SetPrivate", repo |-> r.Repo, private |-> r.Private] >>
  \o [c \in DOMAIN r.Collabs |->
        [op |-> "AddCollaborator", from |-> "repos", repo |-> r.Repo,
         user |-> r.Collabs[c]]]

RECURSIVE MetaCallsUpTo(_)
MetaCallsUpTo(n) ==
  IF n = 0 THEN <<>> ELSE MetaCallsUpTo(n - 1) \o MetaCalls(ocfg.Repos[n])

MetaEffects ==
  SelectSeq(effects,
            LAMBDA e : \/ e.op \in {"SetProjectName", "SetDescription", "SetPrivate"}
                       \/ (e.op = "AddCollaborator" /\ e.from = "repos"))

C12_MetadataOncePerEntry ==
  LET metadata == RankOf("RepositoryMetadata")
  IN /\ PhaseRank(pc) < metadata => MetaEffects = <<>>
     /\ PhaseRank(pc) = metadata =>
          /\ result = "running"
          /\ IsPrefix(MetaCallsUpTo(idx - 1), MetaEffects)
          /\ IF idx > Len(ocfg.Repos)
               THEN MetaEffects = MetaCallsUpTo(Len(ocfg.Repos))
               ELSE IsPrefix(MetaEffects, MetaCallsUpTo(idx))
     /\ PhaseRank(pc) > metadata => MetaEffects = MetaCallsUpTo(Len(ocfg.Repos))

\* Two entries, the first for a repository that was never imported; every
\* best-effort call of the run failed, the metadata calls of both entries
\* included, and the run went on to write the configuration.
C12_Witness ==
  /\ result = "ok"
  /\ Len(ocfg.Repos) = 2
  /\ ocfg.Repos[1].Repo = "ghost"
  /\ Names(EffectsOf("CreateRepository")) = <<"r1">>
  /\ Len(MetaEffects) = 9
  /\ nlogged = Cardinality(BestEffortCalls) + 1

(***************************************************************************)
(* C13.  The name a legacy user is created under is the user's name with   *)
(* every uppercase letter replaced by its lowercase letter and every space *)
(* by a hyphen, character by character and nothing else changed; the       *)
(* add-collaborator calls for that user's collab-repos carry the very same *)
(* name.                                                                   *)
(***************************************************************************)
CanonicalChar(ch) ==
  IF ch = " " THEN "-"
  ELSE IF \E n \in DOMAIN UpperCase : UpperCase[n] = ch
    THEN LowerCase[CHOOSE n \in DOMAIN UpperCase : UpperCase[n] = ch]
    ELSE ch

C13_CanonicalUsername ==
  /\ \A m \in 1..Cardinality(Ops("CreateUser")) :
       LET e == effects[NthOp("CreateUser", m)]
           u == ocfg.Users[m]
       IN /\ Len(e.name) = Len(u.Name)
          /\ \A k \in DOMAIN u.Name : e.name[k] = CanonicalChar(u.Name[k])
  /\ \A k \in UserCollabs :
       /\ \E j \in Ops("CreateUser") : j < k
       /\ effects[k].user = effects[CreateBefore(k)].name

\* "Ja D" was created as "ja-d" and made a collaborator under that name.
C13_Witness ==
  \E k \in UserCollabs :
    /\ ocfg.Users[Cardinality({j \in Ops("CreateUser") : j < k})].Name = NameJane
    /\ effects[k].user = <<"j", "a", "-", "d">>
    /\ effects[CreateBefore(k)].name = <<"j", "a", "-", "d">>

(***************************************************************************)
(* C14.  The configuration handed to the final write has the legacy        *)
(* document's name as server name and "ssh://<host>:<port>" of the legacy  *)
(* host and port as public SSH URL; its SSH listen address is the legacy   *)
(* bind address when one was supplied and the default otherwise; its SSH   *)
(* key path is the path the private key was copied to when a legacy key    *)
(* path was supplied and the default otherwise.                            *)
(***************************************************************************)
\* The document the run reads: config.yaml's when there is one.
LegacyDoc == IF HasYaml THEN world.tree.yaml.doc ELSE world.tree.json.doc

C14_WrittenConfig ==
  \A k \in Ops("WriteConfig") :
    LET w == effects[k].cfg
    IN /\ w.Name = LegacyDoc.Name
       /\ w.PublicURL = <<"ssh://", LegacyDoc.Host, ":", LegacyDoc.Port>>
       /\ w.ListenAddr = IF world.bindAddr # <<>> THEN world.bindAddr
                                                  ELSE DefaultConfig.ListenAddr
       /\ IF world.keyPath # <<>>
            THEN /\ w.KeyPath =
                      <<"data", Sep, "ssh", Sep, world.keyPath[Len(world.keyPath)]>>
                 /\ \E j \in Ops("copyFile") :
                      effects[j].src = world.keyPath /\ effects[j].dst = w.KeyPath
            ELSE w.KeyPath = DefaultConfig.KeyPath
       /\ w.DataPath = DefaultConfig.DataPath

\* Written with a legacy key path but no legacy bind address: the key path
\* is the copy's, the listen address the default.
C14_Witness ==
  /\ result = "ok"
  /\ world.bindAddr = <<>>
  /\ world.keyPath # <<>>
  /\ effects[Len(effects)].cfg.ListenAddr = DefaultConfig.ListenAddr
  /\ effects[Len(effects)].cfg.KeyPath # DefaultConfig.KeyPath
  /\ effects[Len(effects)].cfg.Name = "Legacy"

(***************************************************************************)
(* C15.  As claimed: isGitDir returns true exactly when the directory has  *)
(* an entry "objects" that is a directory and an entry "HEAD" that is a    *)
(* regular file; every other shape, a HEAD that is a directory or any      *)
(* other non-regular entry included, gives false.                          *)
(***************************************************************************)
EntriesNamed(d, n) == {k \in DOMAIN d.kids : d.kids[k].name = n}

ObjectsIsDir(d) == \E k \in EntriesNamed(d, "objects") : d.kids[k].isDir

HeadIsRegular(d) == \E k \in EntriesNamed(d, "HEAD") : d.kids[k].regular

HeadIsNotDir(d) == \E k \in EntriesNamed(d, "HEAD") : ~d.kids[k].isDir

C15_TrueIffRegularHead ==
  /\ \A k \in DOMAIN dirs :
       dirs[k].isDir =>
         (isGitDir(dirs[k]) <=> (ObjectsIsDir(dirs[k]) /\ HeadIsRegular(dirs[k])))
  /\ pc \in {"repos_mkdir", "copy", "create"} =>
       (ObjectsIsDir(dirs[idx]) /\ HeadIsRegular(dirs[idx]))

\* C15, as the code has it: isGitDir returns true exactly when "objects" is
\* a directory and "HEAD" exists and is not a directory.  A HEAD that is
\* neither a directory nor a regular file is accepted like a regular one;
\* either entry missing, "objects" not a directory or "HEAD" a directory
\* gives false, and only accepted directories are imported.
C15_TrueIffHeadNotDir ==
  /\ \A k \in DOMAIN dirs :
       dirs[k].isDir =>
         (isGitDir(dirs[k]) <=> (ObjectsIsDir(dirs[k]) /\ HeadIsNotDir(dirs[k])))
  /\ pc \in {"repos_mkdir", "copy", "create"} =>
       (ObjectsIsDir(dirs[idx]) /\ HeadIsNotDir(dirs[idx]))
  /\ (pc = "dir" /\ idx > 1 /\ dirs[idx - 1].isDir /\ Ops("copyDir") = {}) =>
       ~(ObjectsIsDir(dirs[idx - 1]) /\ HeadIsNotDir(dirs[idx - 1]))

\* A directory whose HEAD is neither a directory nor a regular file was
\* accepted and registered as a repository.
C15_Witness ==
  /\ Ops("CreateRepository") # {}
  /\ \E k \in DOMAIN dirs :
       /\ dirs[k].name = effects[NthOp("CreateRepository", 1)].name
       /\ ObjectsIsDir(dirs[k])
       /\ HeadIsNotDir(dirs[k])
       /\ ~HeadIsRegular(dirs[k])

(***************************************************************************)
(* C16.  copyDir, whenever the stat of its source, the creation of its     *)
(* destination and the listing of the source succeed, attempts every child *)
(* of the source directory, whatever happened to the children before it,   *)
(* and returns no error; when the stat of the source or the creation of    *)
(* the destination fails it returns an error and has attempted no child    *)
(* and made nothing.                                                       *)
(***************************************************************************)
TopFaults(faults, ops) == {f \in faults : f.at = <<>> /\ f.op \in ops}

ChildPaths(d) == {<<d.kids[k].name>> : k \in DOMAIN d.kids}

C16_CopyDirBestEffort ==
  /\ pc = "copy" =>
       \A faults \in FaultPlans(dirs[idx]) :
         LET r == copyDir(dirs[idx], <<>>, faults)
         IN /\ TopFaults(faults, {"stat", "mkdir"}) # {} =>
                 (r.err /\ r.made = {} /\ r.tried \cap ChildPaths(dirs[idx]) = {})
            /\ TopFaults(faults, {"stat", "mkdir", "readdir"}) = {} =>
                 (~r.err /\ ChildPaths(dirs[idx]) \subseteq r.tried /\ <<>> \in r.made)
  /\ \A k \in Ops("copyDir") :
       LET e == effects[k]
           d == dirs[CHOOSE n \in DOMAIN dirs : dirs[n].name = e.name]
       IN IF e.err
            THEN e.tried \cap ChildPaths(d) = {} /\ e.made \subseteq {<<>>}
            ELSE ChildPaths(d) \subseteq e.tried /\ <<>> \in e.made

\* A copy that reported success although its first child, HEAD, could not
\* be copied; the child after it was still copied.
C16_Witness ==
  \E k \in Ops("copyDir") :
    /\ ~effects[k].err
    /\ <<"HEAD">> \in effects[k].tried \ effects[k].made
    /\ <<"objects">> \in effects[k].made

(***************************************************************************)
(* C17.  As claimed: the keys passed to create-user are in insertion       *)
(* order, each distinct canonical key at the place of its first occurrence *)
(* in the user's key list, so the sequence is a function of the list.      *)
(***************************************************************************)
\* The place in the list where the canonical form of pk first occurs.
FirstOccurrence(PublicKeys, pk) ==
  CHOOSE k \in Parseable(PublicKeys) :
    /\ MarshalAuthorizedKey(ParseAuthorizedKey(PublicKeys[k]).pk)
         = MarshalAuthorizedKey(pk)
    /\ \A j \in Parseable(PublicKeys) :
         MarshalAuthorizedKey(ParseAuthorizedKey(PublicKeys[j]).pk)
           = MarshalAuthorizedKey(pk) => k <= j

C17_InsertionOrder ==
  \A m \in 1..Cardinality(Ops("CreateUser")) :
    LET passed == effects[NthOp("CreateUser", m)].keys
        listed == ocfg.Users[m].PublicKeys
    IN \A i, j \in DOMAIN passed :
         i < j => FirstOccurrence(listed, passed[i]) < FirstOccurrence(listed, passed[j])

(***************************************************************************)
(* C18.  Every create-repository call precedes every metadata call         *)
(* (set-project-name, set-description, set-private, add-collaborator of a  *)
(* repos[] entry), and every metadata call precedes every create-user      *)
(* call.  So a collaborator listed under repos[].collabs is granted before *)
(* the run has created any user, and under the identifier as listed, not   *)
(* its canonical form.                                                     *)
(***************************************************************************)
MetaOps == {"SetProjectName", "SetDescription", "SetPrivate"}

RepoCollabs == {k \in Ops("AddCollaborator") : effects[k].from = "repos"}

MetadataCalls == {k \in DOMAIN effects : effects[k].op \in MetaOps} \cup RepoCollabs

C18_ImportThenMetadataThenUsers ==
  /\ \A i \in Ops("CreateRepository") : \A j \in MetadataCalls : i < j
  /\ \A i \in MetadataCalls :
       \A j \in Ops("CreateUser") \cup UserCollabs : i < j
  /\ \A i \in Ops("CreateRepository") : \A j \in Ops("CreateUser") : i < j
  /\ \A k \in RepoCollabs :
       /\ \A j \in Ops("CreateUser") : k < j
       /\ \E n \in DOMAIN ocfg.Repos :
            /\ ocfg.Repos[n].Repo = effects[k].repo
            /\ \E c \in DOMAIN ocfg.Repos[n].Collabs :
                 ocfg.Repos[n].Collabs[c] = effects[k].user

\* "Ja D" was made a collaborator of r1 under that spelling, after r1 was
\* registered and before the user "ja-d" was created.
C18_Witness ==
  \E i \in Ops("CreateRepository") : \E k \in RepoCollabs : \E j \in Ops("CreateUser") :
    /\ i < k /\ k < j
    /\ effects[k].user = NameJane
    /\ effects[j].name = <<"j", "a", "-", "d">>
    /\ effects[k].user # effects[j].name

(***************************************************************************)
(* C19.  create-repository for a directory is issued only right after the  *)
(* tree copy of that directory returned without error, and it is issued    *)
(* after every such copy, also when files or subdirectories inside could   *)
(* not be copied: copyDir swallows those failures, so a repository can be  *)
(* registered whose copy is incomplete.                                    *)
(***************************************************************************)
C19_CreateAfterCopyReturned ==
  /\ \A k \in Ops("CreateRepository") :
       /\ k > 1
       /\ effects[k - 1].op = "copyDir"
       /\ effects[k - 1].name = effects[k].name
       /\ ~effects[k - 1].err
  /\ \A k \in Ops("copyDir") :
       ~effects[k].err =>
         IF k = Len(effects)
           THEN pc = "create" /\ result = "running" /\ dirs[idx].name = effects[k].name
           ELSE /\ effects[k + 1].op = "CreateRepository"
                /\ effects[k + 1].name = effects[k].name

\* A repository registered although part of its tree was not copied.
C19_Witness ==
  \E k \in Ops("CreateRepository") :
    /\ k > 1
    /\ effects[k - 1].op = "copyDir"
    /\ effects[k - 1].made # effects[k - 1].tried
    /\ result = "ok"

(***************************************************************************)
(* C20.  The server-settings phase issues set-allow-keyless exactly once,  *)
(* with the legacy document's flag.  It issues set-anon-access at most     *)
(* once, and exactly when the legacy anon-access string parses to a level  *)
(* that is not negative, with that level; for a string that does not, the  *)
(* call is left out and the run goes on.  No failure in this phase ends    *)
(* the run.                                                                *)
(***************************************************************************)
C20_ServerSettings ==
  LET settings == RankOf("ServerSettings")
      anon == ParseAccessLevel(LegacyDoc.AnonAccess)
  IN /\ PhaseRank(pc) < settings =>
          (Ops("SetAllowKeyless") = {} /\ Ops("SetAnonAccess") = {})
     /\ PhaseRank(pc) = settings => result = "running"
     /\ (pc = "anon" \/ PhaseRank(pc) > settings) =>
          Cardinality(Ops("SetAllowKeyless")) = 1
     /\ \A k \in Ops("SetAllowKeyless") : effects[k].allow = LegacyDoc.AllowKeyless
     /\ Cardinality(Ops("SetAnonAccess")) <= 1
     /\ \A k \in Ops("SetAnonAccess") :
          /\ anon >= 0
          /\ effects[k].level = anon
          /\ \E j \in Ops("SetAllowKeyless") : j < k
     /\ PhaseRank(pc) > settings =>
          (Ops("SetAnonAccess") # {} <=> anon >= 0)

\* An anon-access string that names no level: set-allow-keyless was issued,
\* set-anon-access was not, and the run succeeded.
C20_Witness ==
  /\ LegacyDoc.AnonAccess = "bogus"
  /\ result = "ok"
  /\ Cardinality(Ops("SetAllowKeyless")) = 1
  /\ Ops("SetAnonAccess") = {}

====
